---- MODULE Spec2Model ----
(***************************************************************************)
(* State-machine model of packages/openshift/util.py (Python 2):           *)
(*   - extract_numerical_value and its unit table      (SpecQ)             *)
(*   - the OutputCapture context manager               (SpecOC)            *)
(*   - the TempFile context manager                    (SpecTF)            *)
(*   - mkdir_p racing with other processes             (SpecMk)            *)
(*                                                                         *)
(* Strings are sequences of one-character strings.  Numbers are exact:     *)
(* a finite value is m * 2^e2 * 5^e5 with m an integer divisible by        *)
(* neither 2 nor 5 (m = 0, e2 = 0, e5 = 0 for zero), so that values such   *)
(* as 2^31 or 10^18 need no wide integer.  Python's int 0 and float 0.0    *)
(* compare equal and are both the number zero here; IEEE rounding is not   *)
(* modelled.                                                               *)
(***************************************************************************)
EXTENDS Integers, Sequences, FiniteSets, TLC

VARIABLES
    \* extract_numerical_value
    qpc, val, result,
    \* OutputCapture
    sysStdout, sysStderr, stack, capOut, capErr, realOut, realErr,
    nCaptures, nPrints, lastExit,
    \* TempFile
    tfpc, tf, fds, files, closeCalls, unlinkCalls, closeFailed, unlinkFailed,
    nContexts, nDestroys, tfRaised,
    \* mkdir_p
    mkpc, fsPath, mkErrno, mkResult, fsAtAttempt, fsAtFinish, nCalls, nEnv

qvars  == <<qpc, val, result>>
ocvars == <<sysStdout, sysStderr, stack, capOut, capErr, realOut, realErr,
            nCaptures, nPrints, lastExit>>
tfvars == <<tfpc, tf, fds, files, closeCalls, unlinkCalls, closeFailed,
            unlinkFailed, nContexts, nDestroys, tfRaised>>
mkvars == <<mkpc, fsPath, mkErrno, mkResult, fsAtAttempt, fsAtFinish, nCalls, nEnv>>
vars   == <<qvars, ocvars, tfvars, mkvars>>

(***************************************************************************)
(*                       extract_numerical_value                           *)
(***************************************************************************)

\* Longest input string handed to extract_numerical_value.
MaxLen == 4

\* _unit_scales, util.py line 152.
UnitLetters == {"n", "u", "m", "k", "K", "M", "G", "T", "P", "E"}

_unit_scales ==
    [c \in UnitLetters |->
        CASE c = "n" -> -3
          [] c = "u" -> -2
          [] c = "m" -> -1
          [] c = "k" -> 1
          [] c = "K" -> 1
          [] c = "M" -> 2
          [] c = "G" -> 3
          [] c = "T" -> 4
          [] c = "P" -> 5
          [] c = "E" -> 6]

Digits == {"0", "1", "2"}

\* Characters the inputs are built from: every unit letter, the binary
\* marker "i", three digits, the point, the sign "-" and the letter "a",
\* which is no unit and no digit ("n", "a" also spell float's "nan").
Alphabet == UnitLetters \cup Digits \cup {"i", ".", "-", "a"}

\* The strings of n characters.
Strings(n) == [1..n -> Alphabet]

DigitVal(c) == CASE c = "0" -> 0 [] c = "1" -> 1 [] c = "2" -> 2

\* ---- exact numbers ------------------------------------------------------

RECURSIVE Strip(_, _, _)
\* m / d^k for the largest k with d^k dividing m, as <<quotient, k>> (m # 0).
Strip(m, d, k) == IF m % d = 0 THEN Strip(m \div d, d, k + 1) ELSE <<m, k>>

Num(m, e2, e5) ==
    IF m = 0 THEN [kind |-> "num", m |-> 0, e2 |-> 0, e5 |-> 0]
    ELSE LET a  == IF m < 0 THEN -m ELSE m
             s2 == Strip(a, 2, 0)
             s5 == Strip(s2[1], 5, 0)
         IN  [kind |-> "num",
              m    |-> IF m < 0 THEN -s5[1] ELSE s5[1],
              e2   |-> e2 + s2[2],
              e5   |-> e5 + s5[2]]

NaN         == [kind |-> "nan",        m |-> 0, e2 |-> 0, e5 |-> 0]
ValueError  == [kind |-> "ValueError", m |-> 0, e2 |-> 0, e5 |-> 0]

\* x * pow(base, e) for base 2 or 10; nan * anything is nan.
Times(x, base, e) ==
    IF x.kind # "num" THEN x
    ELSE IF x.m = 0 THEN x
    ELSE IF base = 2 THEN [x EXCEPT !.e2 = @ + e]
    ELSE [x EXCEPT !.e2 = @ + e, !.e5 = @ + e]

\* ---- float(str) ---------------------------------------------------------

RECURSIVE DecimalValue(_)
\* The natural number a non-empty digit string writes.
DecimalValue(s) ==
    IF Len(s) = 0 THEN 0
    ELSE 10 * DecimalValue(SubSeq(s, 1, Len(s) - 1)) + DigitVal(s[Len(s)])

IsDigits(s) == Len(s) > 0 /\ \A j \in 1..Len(s) : s[j] \in Digits

Unsigned(s) == IF Len(s) > 0 /\ s[1] = "-" THEN SubSeq(s, 2, Len(s)) ELSE s

Sign(s) == IF Len(s) > 0 /\ s[1] = "-" THEN -1 ELSE 1

AllDigits(s) == \A j \in 1..Len(s) : s[j] \in Digits

\* The digits of a mantissa "ddd", "ddd.", "ddd.ddd" or ".ddd" with the
\* point taken out, and the number of digits after the point; ok is FALSE
\* when s is none of these.
Mantissa(s) ==
    LET dots == {j \in 1..Len(s) : s[j] = "."}
    IN  IF dots = {} THEN [ok |-> IsDigits(s), digits |-> s, frac |-> 0]
        ELSE LET j  == CHOOSE x \in dots : TRUE
                 ip == SubSeq(s, 1, j - 1)
                 fp == SubSeq(s, j + 1, Len(s))
             IN  [ok     |-> Cardinality(dots) = 1 /\ AllDigits(ip) /\ AllDigits(fp)
                             /\ Len(ip) + Len(fp) > 0,
                  digits |-> ip \o fp,
                  frac   |-> Len(fp)]

\* float(s) for s over Alphabet: [-] mantissa [E [-] digits], or [-] nan
\* (the sign of a nan is of no effect); anything else is a ValueError.
ParseFloat(s) ==
    LET body == Unsigned(s)
        epos == {j \in 1..Len(body) : body[j] = "E"}
    IN  IF body = <<"n", "a", "n">> THEN NaN
        ELSE IF epos = {} THEN
            LET mt == Mantissa(body)
            IN  IF mt.ok
                THEN Times(Num(Sign(s) * DecimalValue(mt.digits), 0, 0), 10, -mt.frac)
                ELSE ValueError
        ELSE
            LET j  == CHOOSE x \in epos : \A y \in epos : x <= y
                mt == Mantissa(SubSeq(body, 1, j - 1))
                ex == SubSeq(body, j + 1, Len(body))
            IN  IF mt.ok /\ IsDigits(Unsigned(ex))
                THEN LET e == Sign(ex) * DecimalValue(Unsigned(ex))
                     IN  Times(Num(Sign(s) * DecimalValue(mt.digits), 0, 0), 10, e - mt.frac)
                ELSE ValueError

\* ---- the function -------------------------------------------------------

TypeError   == [kind |-> "TypeError",  m |-> 0, e2 |-> 0, e5 |-> 0]
IndexError  == [kind |-> "IndexError", m |-> 0, e2 |-> 0, e5 |-> 0]

\* The unit letter's position, the prefix before it and its scale
\* (lines 158-171), for a non-empty str v.
Unit(v) ==
    LET binary     == v[Len(v)] = "i"
        unit_place == IF binary THEN -2 ELSE -1
        unit       == v[Len(v) + 1 + unit_place]
    IN  [binary |-> binary,
         found  |-> unit \in DOMAIN _unit_scales,
         power  |-> IF unit \in DOMAIN _unit_scales THEN _unit_scales[unit] ELSE 0,
         prefix |-> SubSeq(v, 1, Len(v) + unit_place)]

\* Lines 163-180 with power_scale left at 2 for the decimal units.
Convert_decimal_scale_2(v) ==
    LET u     == Unit(v)
        value == IF u.found
                 THEN IF Len(u.prefix) = 0 THEN Num(0, 0, 0) ELSE ParseFloat(u.prefix)
                 ELSE IF u.binary THEN ParseFloat(SubSeq(v, 1, Len(v) - 1))
                 ELSE ParseFloat(v)
    IN  Times(value, IF u.binary THEN 2 ELSE 10, u.power * (IF u.binary THEN 10 ELSE 2))

\* Lines 163-180 with base and power_scale not switched for a trailing "i".
Convert_binary_as_decimal(v) ==
    LET u     == Unit(v)
        value == IF u.found
                 THEN IF Len(u.prefix) = 0 THEN Num(0, 0, 0) ELSE ParseFloat(u.prefix)
                 ELSE IF u.binary THEN ParseFloat(SubSeq(v, 1, Len(v) - 1))
                 ELSE ParseFloat(v)
    IN  Times(value, 10, u.power * 3)

\* Lines 163-180 with the ValueError of float() caught and 0 used instead.
Convert_swallows_ValueError(v) ==
    LET u     == Unit(v)
        value == IF u.found
                 THEN IF Len(u.prefix) = 0 THEN Num(0, 0, 0) ELSE ParseFloat(u.prefix)
                 ELSE IF u.binary THEN ParseFloat(SubSeq(v, 1, Len(v) - 1))
                 ELSE ParseFloat(v)
    IN  IF value.kind = "ValueError" THEN Num(0, 0, 0)
        ELSE Times(value, IF u.binary THEN 2 ELSE 10, u.power * (IF u.binary THEN 10 ELSE 3))

\* Lines 163-180 without the `elif unit_place == -2` branch.
Convert_no_binary_fallback(v) ==
    LET u     == Unit(v)
        value == IF u.found
                 THEN IF Len(u.prefix) = 0 THEN Num(0, 0, 0) ELSE ParseFloat(u.prefix)
                 ELSE ParseFloat(v)
    IN  Times(value, IF u.binary THEN 2 ELSE 10, u.power * (IF u.binary THEN 10 ELSE 3))

\* Lines 163-180 without the test for an empty prefix.
Convert_no_empty_prefix_test(v) ==
    LET u     == Unit(v)
        value == IF u.found THEN ParseFloat(u.prefix)
                 ELSE IF u.binary THEN ParseFloat(SubSeq(v, 1, Len(v) - 1))
                 ELSE ParseFloat(v)
    IN  Times(value, IF u.binary THEN 2 ELSE 10, u.power * (IF u.binary THEN 10 ELSE 3))

\* Lines 158-180 for a non-empty str v that is not a one- or two-character
\* string ending in "i".
Convert(v) ==
    LET u           == Unit(v)
        base        == IF u.binary THEN 2 ELSE 10
        power_scale == IF u.binary THEN 10 ELSE 3
        value       == IF u.found
                       THEN IF Len(u.prefix) = 0 THEN Num(0, 0, 0) ELSE ParseFloat(u.prefix)
                       ELSE IF u.binary
                            THEN ParseFloat(SubSeq(v, 1, Len(v) - 1))
                            ELSE ParseFloat(v)
    IN  Times(value, base, u.power * power_scale)

\* extract_numerical_value without `if not val: return 0`: val[-1] raises
\* TypeError on None and IndexError on "".
extract_numerical_value_no_guard(a) ==
    IF a.none THEN TypeError
    ELSE IF Len(a.str) = 0 THEN IndexError
    ELSE IF a.str[Len(a.str)] = "i" /\ Len(a.str) < 3 THEN Num(0, 0, 0)
    ELSE Convert(a.str)

\* extract_numerical_value (lines 153-180); lines 156-157 and 163-165 are
\* the early returns.
extract_numerical_value(a) ==
    IF a.none \/ Len(a.str) = 0 THEN Num(0, 0, 0)
    ELSE IF a.str[Len(a.str)] = "i" /\ Len(a.str) < 3 THEN Num(0, 0, 0)
    ELSE Convert(a.str)

\* A Python argument: None, or a str.
PyNone == [none |-> TRUE, str |-> <<>>]
PyStr(s) == [none |-> FALSE, str |-> s]

InitQ ==
    /\ qpc = "idle"
    /\ val = PyNone
    /\ result = Num(0, 0, 0)

\* A caller calls extract_numerical_value(a) and gets its result or error.
Call(a) ==
    /\ qpc = "idle"
    /\ qpc' = "returned"
    /\ val' = a
    /\ result' = extract_numerical_value(a)

\* The caller drops the result.
Discard ==
    /\ qpc = "returned"
    /\ qpc' = "idle"
    /\ val' = PyNone
    /\ result' = Num(0, 0, 0)

(***************************************************************************)
(*                             OutputCapture                               *)
(***************************************************************************)

\* OutputCapture objects created in one run, and print statements executed.
MaxCaptures == 3
MaxPrints == 3

\* A stream object: the interpreter's original one (sys.__stdout__ or
\* sys.__stderr__), or the out or err buffer of capture number id.
Original   == [kind |-> "original", id |-> 0]
Buffer(k)  == [kind |-> "buffer", id |-> k]

CaptureIds == 1..MaxCaptures

InitOC ==
    /\ sysStdout = Original
    /\ sysStderr = Original
    /\ stack = <<>>
    /\ capOut = [k \in CaptureIds |-> 0]
    /\ capErr = [k \in CaptureIds |-> 0]
    /\ realOut = 0
    /\ realErr = 0
    /\ nCaptures = 0
    /\ nPrints = 0
    /\ lastExit = [id |-> 0, exc |-> FALSE, propagated |-> FALSE]

\* The open captures, innermost last.  Each entry keeps, besides the
\* capture's number, what sys.stdout and sys.stderr were bound to when its
\* __enter__ ran: a history record, no field of the object.
Top == stack[Len(stack)]

\* `with OutputCapture() as c:` - __init__ then __enter__ (lines 15-22).
capture_enter ==
    /\ nCaptures < MaxCaptures
    /\ nCaptures' = nCaptures + 1
    /\ stack' = Append(stack, [id |-> nCaptures + 1,
                               prevOut |-> sysStdout, prevErr |-> sysStderr])
    /\ sysStdout' = Buffer(nCaptures + 1)
    /\ sysStderr' = Buffer(nCaptures + 1)
    /\ UNCHANGED <<capOut, capErr, realOut, realErr, nPrints, lastExit>>

\* What __exit__ (lines 24-26) binds sys.stdout and sys.stderr to.
exit_stdout(entry) == Original
exit_stderr(entry) == Original

\* The block of the innermost open capture ends, normally or with an
\* exception; __exit__ returns None, so an exception goes on to the caller.
capture_exit(exc) ==
    /\ Len(stack) > 0
    /\ sysStdout' = exit_stdout(Top)
    /\ sysStderr' = exit_stderr(Top)
    /\ stack' = SubSeq(stack, 1, Len(stack) - 1)
    /\ lastExit' = [id |-> Top.id, exc |-> exc, propagated |-> exc]
    /\ UNCHANGED <<capOut, capErr, realOut, realErr, nCaptures, nPrints>>

\* A write to the stream: the numbers of writes the buffers and the
\* original stream have received, after it.
Written(stream, cap, real) ==
    IF stream.kind = "buffer"
    THEN <<[cap EXCEPT ![stream.id] = @ + 1], real>>
    ELSE <<cap, real + 1>>

\* Running code prints to sys.stdout.
print_stdout ==
    /\ nPrints < MaxPrints
    /\ nPrints' = nPrints + 1
    /\ capOut' = Written(sysStdout, capOut, realOut)[1]
    /\ realOut' = Written(sysStdout, capOut, realOut)[2]
    /\ UNCHANGED <<sysStdout, sysStderr, stack, capErr, realErr, nCaptures, lastExit>>

\* Running code prints to sys.stderr.
print_stderr ==
    /\ nPrints < MaxPrints
    /\ nPrints' = nPrints + 1
    /\ capErr' = Written(sysStderr, capErr, realErr)[1]
    /\ realErr' = Written(sysStderr, capErr, realErr)[2]
    /\ UNCHANGED <<sysStdout, sysStderr, stack, capOut, realOut, nCaptures, lastExit>>

(***************************************************************************)
(*                                TempFile                                 *)
(***************************************************************************)

\* `with TempFile(...)` statements executed, and explicit destroy() calls
\* made on one TempFile.
MaxContexts == 2
MaxDestroys == 2

\* Python's None for self.file and self.path; descriptors and paths are
\* numbered from 1 (the n-th mkstemp returns descriptor n and path n).
None == 0

ContextIds == 1..MaxContexts

\* What the operating system does with os.close: it succeeds, or raises
\* OSError having released the descriptor or not.  os.unlink succeeds, or
\* raises OSError and the file stays.
CloseOutcomes  == {"ok", "error_released", "error_open"}
UnlinkOutcomes == {"ok", "error"}

InitTF ==
    /\ tfpc = "out"
    /\ tf = [file |-> None, path |-> None, content |-> FALSE]
    /\ fds = {}
    /\ files = {}
    /\ closeCalls = [k \in ContextIds |-> 0]
    /\ unlinkCalls = [k \in ContextIds |-> 0]
    /\ closeFailed = {}
    /\ unlinkFailed = {}
    /\ nContexts = 0
    /\ nDestroys = 0
    /\ tfRaised = FALSE

\* The object and the operating-system state destroy() reads and writes.
TFState == [tf |-> tf, fds |-> fds, files |-> files,
            closeCalls |-> closeCalls, unlinkCalls |-> unlinkCalls,
            closeFailed |-> closeFailed, unlinkFailed |-> unlinkFailed]

\* os.close(fd): the call is made; OSError is a StandardError in Python 2.
os_close(st, fd, cl) ==
    [st EXCEPT !.closeCalls[fd] = @ + 1,
               !.fds = IF cl = "error_open" THEN @ ELSE @ \ {fd},
               !.closeFailed = IF cl = "ok" /\ fd \in st.fds THEN @ ELSE @ \cup {fd}]

\* os.unlink(path).
os_unlink(st, path, ul) ==
    [st EXCEPT !.unlinkCalls[path] = @ + 1,
               !.files = IF ul = "ok" THEN @ \ {path} ELSE @,
               !.unlinkFailed = IF ul = "ok" /\ path \in st.files THEN @ ELSE @ \cup {path}]

\* destroy as it would be without the try/except around os.close: the
\* OSError of a failed close leaves the method before the unlink.
destroy_close_raises(st, cl, ul) ==
    LET s1 == IF st.tf.file # None THEN os_close(st, st.tf.file, cl) ELSE st
        failed == st.tf.file # None /\ st.tf.file \in s1.closeFailed
        s2 == IF ~failed /\ s1.tf.path # None THEN os_unlink(s1, s1.tf.path, ul) ELSE s1
    IN  IF failed THEN s2 ELSE [s2 EXCEPT !.tf.file = None, !.tf.path = None]

\* TempFile.destroy (lines 66-78).
destroy(st, cl, ul) ==
    LET s1 == IF st.tf.file # None THEN os_close(st, st.tf.file, cl) ELSE st
        s2 == IF s1.tf.path # None THEN os_unlink(s1, s1.tf.path, ul) ELSE s1
    IN  [s2 EXCEPT !.tf.file = None, !.tf.path = None]

SetTF(st) ==
    /\ tf' = st.tf
    /\ fds' = st.fds
    /\ files' = st.files
    /\ closeCalls' = st.closeCalls
    /\ unlinkCalls' = st.unlinkCalls
    /\ closeFailed' = st.closeFailed
    /\ unlinkFailed' = st.unlinkFailed

\* `with TempFile(content) as t:` - __init__ and __enter__ (lines 36-54).
\* mkstemp may fail; with content, the write, fsync or lseek may fail, and
\* then __enter__ calls destroy and re-raises.
tf_enter(content, mk, wr, cl, ul) ==
    /\ tfpc \in {"out", "done", "enter_failed", "mkstemp_failed"}
    /\ nContexts < MaxContexts
    /\ nContexts' = nContexts + 1
    /\ nDestroys' = 0
    /\ LET id  == nContexts + 1
           new == [TFState EXCEPT !.tf = [file |-> None, path |-> None, content |-> content]]
           got == [new EXCEPT !.tf.file = id, !.tf.path = id,
                              !.fds = @ \cup {id}, !.files = @ \cup {id}]
       IN  IF mk = "error"
           THEN /\ SetTF(new)
                /\ tfpc' = "mkstemp_failed"
                /\ tfRaised' = TRUE
           ELSE IF content /\ wr = "error"
           THEN /\ SetTF(destroy(got, cl, ul))
                /\ tfpc' = "enter_failed"
                /\ tfRaised' = TRUE
           ELSE /\ SetTF(got)
                /\ tfpc' = "block"
                /\ tfRaised' = FALSE

\* The block calls t.destroy() itself.
tf_block_destroy(cl, ul) ==
    /\ tfpc = "block"
    /\ nDestroys < MaxDestroys
    /\ nDestroys' = nDestroys + 1
    /\ SetTF(destroy(TFState, cl, ul))
    /\ UNCHANGED <<tfpc, nContexts, tfRaised>>

\* The block ends, normally or with an exception: __exit__ (lines 80-81)
\* calls destroy and returns None, so the exception goes on to the caller.
tf_exit(exc, cl, ul) ==
    /\ tfpc = "block"
    /\ tfpc' = "done"
    /\ tfRaised' = exc
    /\ SetTF(destroy(TFState, cl, ul))
    /\ UNCHANGED <<nContexts, nDestroys>>

\* destroy() is called on a TempFile whose context has ended.
tf_destroy_again(cl, ul) ==
    /\ tfpc \in {"done", "enter_failed"}
    /\ nDestroys < MaxDestroys
    /\ nDestroys' = nDestroys + 1
    /\ SetTF(destroy(TFState, cl, ul))
    /\ UNCHANGED <<tfpc, nContexts, tfRaised>>

(***************************************************************************)
(*                                 mkdir_p                                 *)
(***************************************************************************)

\* Calls of mkdir_p(path) made by this process, and changes other
\* processes make to path.
MaxCalls == 2
MaxEnv == 3

InitMk ==
    /\ mkpc = "idle"
    /\ fsPath \in {"absent", "dir", "file"}
    /\ mkErrno = "none"
    /\ mkResult = "none"
    /\ fsAtAttempt = "none"
    /\ fsAtFinish = "none"
    /\ nCalls = 0
    /\ nEnv = 0

\* The except clause without the os.path.isdir test.
except_clause_ignores_isdir(errno, isdir) == IF errno = "EEXIST" THEN "path" ELSE "raise"

\* The except clause (lines 144-148) given the errno of the OSError and
\* what os.path.isdir(path) answers.
except_clause(errno, isdir) == IF errno = "EEXIST" /\ isdir THEN "path" ELSE "raise"

\* mkdir_p(path) up to the end of os.makedirs (lines 142-143): mkdir fails
\* with EEXIST when anything is at path; otherwise it creates the directory
\* or fails for another reason (EACCES).  A failure other than EEXIST is
\* re-raised without looking at the path (the `and` of line 145 stops at its
\* first operand); success returns path.  fsAtAttempt and fsAtFinish record
\* what was at path at the first and at the last system call of the call.
makedirs(outcome) ==
    /\ mkpc = "idle"
    /\ nCalls < MaxCalls
    /\ nCalls' = nCalls + 1
    /\ fsAtAttempt' = fsPath
    /\ nEnv' = nEnv
    /\ IF fsPath # "absent"
       THEN /\ mkErrno' = "EEXIST"
            /\ mkpc' = "except"
            /\ mkResult' = "none"
            /\ fsAtFinish' = "none"
            /\ fsPath' = fsPath
       ELSE IF outcome = "ok"
       THEN /\ fsPath' = "dir"
            /\ mkErrno' = "none"
            /\ mkResult' = "path"
            /\ mkpc' = "done"
            /\ fsAtFinish' = "dir"
       ELSE /\ fsPath' = fsPath
            /\ mkErrno' = "EACCES"
            /\ mkResult' = except_clause("EACCES", FALSE)
            /\ mkpc' = "done"
            /\ fsAtFinish' = fsPath

\* The os.path.isdir(path) of the except clause, and the return or raise.
isdir_check ==
    /\ mkpc = "except"
    /\ mkpc' = "done"
    /\ mkResult' = except_clause(mkErrno, fsPath = "dir")
    /\ fsAtFinish' = fsPath
    /\ UNCHANGED <<fsPath, mkErrno, fsAtAttempt, nCalls, nEnv>>

\* The caller goes on after the call.
mkdir_p_done ==
    /\ mkpc = "done"
    /\ mkpc' = "idle"
    /\ mkErrno' = "none"
    /\ mkResult' = "none"
    /\ fsAtAttempt' = "none"
    /\ fsAtFinish' = "none"
    /\ UNCHANGED <<fsPath, nCalls, nEnv>>

\* Another process creates the directory, creates a file at path, or
\* removes what is there.
env_mkdir ==
    /\ nEnv < MaxEnv
    /\ fsPath = "absent"
    /\ fsPath' = "dir"
    /\ nEnv' = nEnv + 1
    /\ UNCHANGED <<mkpc, mkErrno, mkResult, fsAtAttempt, fsAtFinish, nCalls>>

env_create_file ==
    /\ nEnv < MaxEnv
    /\ fsPath = "absent"
    /\ fsPath' = "file"
    /\ nEnv' = nEnv + 1
    /\ UNCHANGED <<mkpc, mkErrno, mkResult, fsAtAttempt, fsAtFinish, nCalls>>

env_remove ==
    /\ nEnv < MaxEnv
    /\ fsPath # "absent"
    /\ fsPath' = "absent"
    /\ nEnv' = nEnv + 1
    /\ UNCHANGED <<mkpc, mkErrno, mkResult, fsAtAttempt, fsAtFinish, nCalls>>

(***************************************************************************)
(*                             Specifications                              *)
(***************************************************************************)

\* Each specification runs one part of the module; the other parts stay in
\* their initial state.
InitAll == InitQ /\ InitOC /\ InitTF /\ InitMk

\* Outside SpecMk nothing is at the path mkdir_p would be called on.
InitNoPath == InitAll /\ fsPath = "absent"

NextQ ==
    \/ Call(PyNone) /\ UNCHANGED <<ocvars, tfvars, mkvars>>
    \/ qpc = "idle" /\ \E n \in 0..MaxLen : \E s \in Strings(n) :
            Call(PyStr(s)) /\ UNCHANGED <<ocvars, tfvars, mkvars>>
    \/ Discard /\ UNCHANGED <<ocvars, tfvars, mkvars>>

NextOC ==
    \/ capture_enter /\ UNCHANGED <<qvars, tfvars, mkvars>>
    \/ \E exc \in BOOLEAN : capture_exit(exc) /\ UNCHANGED <<qvars, tfvars, mkvars>>
    \/ print_stdout /\ UNCHANGED <<qvars, tfvars, mkvars>>
    \/ print_stderr /\ UNCHANGED <<qvars, tfvars, mkvars>>

NextTF ==
    \/ \E content \in BOOLEAN, mk, wr \in {"ok", "error"},
          cl \in CloseOutcomes, ul \in UnlinkOutcomes :
            tf_enter(content, mk, wr, cl, ul) /\ UNCHANGED <<qvars, ocvars, mkvars>>
    \/ \E cl \in CloseOutcomes, ul \in UnlinkOutcomes :
            tf_block_destroy(cl, ul) /\ UNCHANGED <<qvars, ocvars, mkvars>>
    \/ \E exc \in BOOLEAN, cl \in CloseOutcomes, ul \in UnlinkOutcomes :
            tf_exit(exc, cl, ul) /\ UNCHANGED <<qvars, ocvars, mkvars>>
    \/ \E cl \in CloseOutcomes, ul \in UnlinkOutcomes :
            tf_destroy_again(cl, ul) /\ UNCHANGED <<qvars, ocvars, mkvars>>

NextMk ==
    \/ \E outcome \in {"ok", "error"} : makedirs(outcome) /\ UNCHANGED <<qvars, ocvars, tfvars>>
    \/ isdir_check /\ UNCHANGED <<qvars, ocvars, tfvars>>
    \/ mkdir_p_done /\ UNCHANGED <<qvars, ocvars, tfvars>>
    \/ env_mkdir /\ UNCHANGED <<qvars, ocvars, tfvars>>
    \/ env_create_file /\ UNCHANGED <<qvars, ocvars, tfvars>>
    \/ env_remove /\ UNCHANGED <<qvars, ocvars, tfvars>>

SpecQ  == InitNoPath /\ [][NextQ]_vars
SpecOC == InitNoPath /\ [][NextOC]_vars
SpecTF == InitNoPath /\ [][NextTF]_vars
SpecMk == InitAll /\ [][NextMk]_vars

(***************************************************************************)
(*                  Properties of extract_numerical_value                  *)
(***************************************************************************)

Zero == [kind |-> "num", m |-> 0, e2 |-> 0, e5 |-> 0]

\* p * 2^a * 5^b for a number p, written on the representation.
Scaled(p, a, b) ==
    IF p.m = 0 THEN Zero
    ELSE [kind |-> "num", m |-> p.m, e2 |-> p.e2 + a, e5 |-> p.e5 + b]

Returned == qpc = "returned" /\ ~val.none /\ Len(val.str) > 0

Last(s) == s[Len(s)]
ButLast(s, k) == SubSeq(s, 1, Len(s) - k)

\* C1: for every decimal unit letter u of the table and every prefix p that
\* writes a number, the value of p followed by u is p * 10^(3 * table[u]);
\* "k" and "K" give the same value for every prefix, and "10k" and "10K"
\* both give 10000 = 2^4 * 5^4.
C1_DecimalUnits ==
    Returned /\ Last(val.str) \in UnitLetters
             /\ ParseFloat(ButLast(val.str, 1)).kind = "num"
    => LET p == ButLast(val.str, 1)
           u == Last(val.str)
       IN  /\ result = Scaled(ParseFloat(p), 3 * _unit_scales[u], 3 * _unit_scales[u])
           /\ u = "k" => result = extract_numerical_value(PyStr(p \o <<"K">>))
           /\ p = <<"1", "0">> /\ u \in {"k", "K"}
                => result = [kind |-> "num", m |-> 1, e2 |-> 4, e5 |-> 4]

C1_Witness ==
    /\ qpc = "returned"
    /\ val = PyStr(<<"1", "0", "K">>)
    /\ result = [kind |-> "num", m |-> 1, e2 |-> 4, e5 |-> 4]

\* C2: for every string of at least 3 characters that ends in "i" and whose
\* second-to-last character is a unit letter, the value is the number
\* written before the unit letter times 2^(10 * table[letter]); a prefix
\* that writes no number is the ValueError of float().  "10Ki" gives
\* 10240 = 2^11 * 5 and "2Gi" gives 2147483648 = 2^31.
C2_BinaryUnits ==
    Returned /\ Len(val.str) >= 3 /\ Last(val.str) = "i"
             /\ val.str[Len(val.str) - 1] \in UnitLetters
    => LET p == ParseFloat(ButLast(val.str, 2))
           u == val.str[Len(val.str) - 1]
       IN  /\ p.kind = "num" => result = Scaled(p, 10 * _unit_scales[u], 0)
           /\ p.kind # "num" => result = p
           /\ val.str = <<"1", "0", "K", "i">>
                => result = [kind |-> "num", m |-> 1, e2 |-> 11, e5 |-> 1]
           /\ val.str = <<"2", "G", "i">>
                => result = [kind |-> "num", m |-> 1, e2 |-> 31, e5 |-> 0]

C2_Witness ==
    /\ qpc = "returned"
    /\ val = PyStr(<<"2", "G", "i">>)
    /\ result = [kind |-> "num", m |-> 1, e2 |-> 31, e5 |-> 0]

\* The numeric prefix of a non-empty string as the description of the
\* algorithm gives it: what stands before a recognised unit letter (the
\* last character, or the one before a trailing "i"); without a recognised
\* unit letter the string without its trailing "i", or the whole string.
UnitLetterFound(s) ==
    IF Last(s) = "i" THEN Len(s) >= 2 /\ s[Len(s) - 1] \in UnitLetters
    ELSE Last(s) \in UnitLetters

NumericPrefix(s) ==
    IF Last(s) = "i"
    THEN IF UnitLetterFound(s) THEN ButLast(s, 2) ELSE ButLast(s, 1)
    ELSE IF UnitLetterFound(s) THEN ButLast(s, 1) ELSE s

\* A numeric prefix that writes no number: characters float() rejects before
\* the unit, or a string without unit that float() rejects.  (The empty
\* prefix of a bare unit is the case of C6.)
Malformed(s) ==
    /\ ~(UnitLetterFound(s) /\ NumericPrefix(s) = <<>>)
    /\ ParseFloat(NumericPrefix(s)).kind = "ValueError"

\* C3 as stated: whenever the numeric prefix of a non-empty input writes no
\* number, the call fails with the conversion error.
C3_MalformedAlwaysRaises ==
    Returned /\ Malformed(val.str) => result.kind = "ValueError"

\* C3, amended: the same, for inputs that are not a one- or two-character
\* string ending in "i"; for those the call returns 0 and converts nothing.
C3_MalformedRaises ==
    /\ Returned /\ Malformed(val.str) /\ ~(Last(val.str) = "i" /\ Len(val.str) < 3)
         => result.kind = "ValueError"
    /\ Returned /\ Last(val.str) = "i" /\ Len(val.str) < 3 => result = Zero

C3_Witness ==
    /\ qpc = "returned"
    /\ val = PyStr(<<"a", "1", "k">>)
    /\ result.kind = "ValueError"

\* C4: the empty string and None give 0, and no error.
C4_EmptyIsZero ==
    qpc = "returned" /\ (val.none \/ Len(val.str) = 0) => result = Zero

C4_Witness ==
    /\ qpc = "returned"
    /\ val.none
    /\ result = Zero

\* C5 as stated: when the character at the unit position is no unit letter
\* the result is the parsed number: the whole string when it does not end
\* in "i", the string without its trailing "i" when it does.
C5_NoUnitIsPlainNumber ==
    Returned /\ ~UnitLetterFound(val.str)
             /\ (Last(val.str) = "i" => Len(val.str) >= 2)
             /\ ParseFloat(NumericPrefix(val.str)).kind = "num"
    => result = ParseFloat(NumericPrefix(val.str))

\* C5, amended: the same, where a string ending in "i" has at least 3
\* characters; a shorter one gives 0 ("1i" gives 0, "10i" gives 10).
C5_NoUnitIsPlainNumberFrom3 ==
    /\ Returned /\ ~UnitLetterFound(val.str)
                /\ (Last(val.str) = "i" => Len(val.str) >= 3)
                /\ ParseFloat(NumericPrefix(val.str)).kind = "num"
         => result = ParseFloat(NumericPrefix(val.str))
    /\ Returned /\ Last(val.str) = "i" /\ Len(val.str) < 3 => result = Zero
    /\ Returned /\ val.str = <<"1", "0", "i">>
         => result = [kind |-> "num", m |-> 1, e2 |-> 1, e5 |-> 1]

C5_Witness ==
    /\ qpc = "returned"
    /\ val = PyStr(<<"1", "0", "i">>)
    /\ result = [kind |-> "num", m |-> 1, e2 |-> 1, e5 |-> 1]

\* C6: a bare unit letter, alone or followed by "i", gives 0 and no error,
\* for every unit letter of the table.
C6_BareUnitIsZero ==
    Returned /\ UnitLetterFound(val.str) /\ NumericPrefix(val.str) = <<>>
    => result = Zero

C6_Witness ==
    /\ qpc = "returned"
    /\ val = PyStr(<<"k">>)
    /\ result = Zero

(***************************************************************************)
(*                        Properties of OutputCapture                      *)
(***************************************************************************)

\* C7: whatever is printed while a capture is open goes to the out or err
\* buffer of the innermost open capture and to no other stream, after any
\* sequence of entering and leaving captures.
C7_PrintsAreCaptured ==
    [][(nPrints' = nPrints + 1 /\ Len(stack) > 0)
         => /\ realOut' = realOut
            /\ realErr' = realErr
            /\ capOut'[Top.id] + capErr'[Top.id] = capOut[Top.id] + capErr[Top.id] + 1]_vars

\* C9: leaving a capture binds sys.stdout and sys.stderr to what they were
\* bound to just before that capture was entered, and an exception of the
\* block goes on to the caller.
C9_ExitRestoresStreams ==
    [][Len(stack') < Len(stack)
         => /\ sysStdout' = Top.prevOut
            /\ sysStderr' = Top.prevErr
            /\ lastExit'.exc => lastExit'.propagated]_vars

(***************************************************************************)
(*                          Properties of TempFile                         *)
(***************************************************************************)

\* The context of the current TempFile has ended: its block was left, or
\* __enter__ failed writing the content.
Ended == tfpc \in {"done", "enter_failed"}

\* C8: once the context has ended, by the block ending normally, by an
\* exception in the block or by a failed write in __enter__, os.close was
\* called on the descriptor and os.unlink on the path, each exactly once,
\* however many times destroy ran and whether or not the close failed, and
\* self.file and self.path are None; the descriptor is closed unless the
\* close failed and the file is gone unless the unlink failed.  No earlier
\* descriptor or path was closed or unlinked twice either.
C8_DestroyedOnEveryPath ==
    /\ Ended => /\ closeCalls[nContexts] = 1
                /\ unlinkCalls[nContexts] = 1
                /\ tf.file = None
                /\ tf.path = None
                /\ nContexts \notin closeFailed => nContexts \notin fds
                /\ nContexts \notin unlinkFailed => nContexts \notin files
    /\ \A k \in ContextIds : closeCalls[k] <= 1 /\ unlinkCalls[k] <= 1

\* The close failed, the unlink was made all the same, and destroy was
\* called again after the first destroy.
C8_Witness ==
    /\ tfpc = "done"
    /\ nContexts \in closeFailed
    /\ unlinkCalls[nContexts] = 1
    /\ nContexts \notin files
    /\ nDestroys > 0

(***************************************************************************)
(*                          Properties of mkdir_p                          *)
(***************************************************************************)

Finished == mkpc = "done"

\* C10 as stated: the call returns path whenever the directory exists when
\* the call finishes, and it raises only when the creation failed for a
\* reason other than EEXIST or path exists and is no directory.
C10_RaisesOnlyForNonDirectory ==
    Finished =>
        /\ fsAtFinish = "dir" => mkResult = "path"
        /\ mkResult = "raise" => mkErrno # "EEXIST" \/ fsAtFinish = "file"

\* C10, amended: the call returns path whenever the directory exists at its
\* last system call: this call created it, it was there at the attempt, or
\* another process put it there between the attempt and the check.  It
\* raises only when the creation failed for a reason other than EEXIST, or
\* when after EEXIST the check finds no directory at path: something that is
\* no directory, or nothing, another process having removed what was there.
C10_RaisesOnlyWithoutDirectory ==
    Finished =>
        /\ fsAtFinish = "dir" => mkResult = "path"
        /\ mkResult = "path" => fsAtFinish = "dir"
        /\ mkResult = "raise" =>
              \/ mkErrno = "EACCES" /\ fsAtAttempt = "absent"
              \/ mkErrno = "EEXIST" /\ fsAtFinish = "file"
              \/ mkErrno = "EEXIST" /\ fsAtAttempt # "absent" /\ fsAtFinish = "absent"

\* The attempt found a file at path, another process replaced it by a
\* directory before the check, and the call returned path.
C10_Witness ==
    /\ Finished
    /\ mkErrno = "EEXIST"
    /\ fsAtAttempt = "file"
    /\ fsAtFinish = "dir"
    /\ mkResult = "path"

====
